---- MODULE Spec2Model ----
(***************************************************************************)
(* Model of renderer/depgraph.py: the import normalizer, the internal      *)
(* dependency resolver, the external usage extractor, the box layout and   *)
(* the flow renderer (header panel, per-system chains, hubs).              *)
(*                                                                         *)
(* Python strings are modelled as sequences of one-character strings, so   *)
(* that len(), slicing, split(), strip(), lower() and the regular          *)
(* expressions of the source are computed character by character.          *)
(***************************************************************************)
EXTENDS Integers, Sequences, FiniteSets, TLC

VARIABLES
    pc,             \* position in the operation being run
    imp,            \* normalize_import: the import string given
    norm1,          \* normalize_import(imp)
    norm2,          \* normalize_import(normalize_import(imp))
    files,          \* render: data["files"], a sequence of file records
    internal_names, \* render: set of normalized file names
    internal_deps,  \* render: find_internal_deps(files), in insertion order
    dep_counts,     \* render: incoming counts per target, in insertion order
    systems,        \* render: files grouped by top-level directory
    external_uses,  \* get_external_uses of every file
    printed,        \* render: what was printed for each system
    hubs,           \* render: the hub list
    summary,        \* render: the HUBS flag and the summary line
    project_name,   \* render: the project name given
    external_deps_data, \* render: data["external_deps"], language -> paths
    dep_lines,      \* render: the dependency lines of the header panel
    max_width,      \* render: the width of the header panel
    line_idx,       \* render: index of the dependency line being printed
    line,           \* render: what is left to print of that line
    out,            \* render: the lines printed for the header panel
    box_path,       \* create_box_lines: path
    box_functions,  \* create_box_lines: functions
    box_external,   \* create_box_lines: external
    lines,          \* draw_box: the content lines
    width,          \* create_box_lines, draw_box: width
    result          \* draw_box: the lines of the box

normVars == <<imp, norm1, norm2>>
fileVars == <<files, internal_names, internal_deps, dep_counts, systems,
              external_uses, printed, hubs, summary>>
panelVars == <<project_name, external_deps_data, dep_lines, max_width,
               line_idx, line, out>>
vars == <<pc, imp, norm1, norm2, files, internal_names, internal_deps,
          dep_counts, systems, external_uses, printed, hubs, summary,
          project_name, external_deps_data, dep_lines, max_width,
          line_idx, line, out, box_path, box_functions, box_external, lines,
          width, result>>
boxVars == <<box_path, box_functions, box_external, lines, width, result>>

\* the variables of the operations a specification does not run
NormIdle == imp = <<>> /\ norm1 = <<>> /\ norm2 = <<>>

FilesIdle ==
    /\ files = <<>> /\ internal_names = {} /\ internal_deps = <<>>
    /\ dep_counts = <<>> /\ systems = <<>> /\ external_uses = <<>>
    /\ printed = <<>> /\ hubs = <<>> /\ summary = <<>>

PanelIdle ==
    /\ project_name = <<>> /\ external_deps_data = <<>> /\ dep_lines = <<>>
    /\ max_width = 0 /\ line_idx = 0 /\ line = <<>> /\ out = <<>>

BoxIdle ==
    /\ box_path = <<>> /\ box_functions = <<>> /\ box_external = <<>>
    /\ lines = <<>> /\ width = 0 /\ result = <<>>

----------------------------------------------------------------------------
(* Bounds of the model.                                                    *)

MaxImportLen == 4
MaxFiles == 3
NumLibs == 8
MaxNameLen == 62
MaxDeps == 12
HugeLen == 200
MaxBoxWidth == 8
MaxLines == 3
MaxLineLen == 6
MaxFunctions == 8
MaxExternal == 4

----------------------------------------------------------------------------
(* Python string primitives.                                               *)

Max(a, b) == IF a >= b THEN a ELSE b
Min(a, b) == IF a <= b THEN a ELSE b

\* str.lower() on one character (ASCII letters)
LowerChar(c) ==
    CASE c = "A" -> "a" [] c = "B" -> "b" [] c = "C" -> "c" [] c = "D" -> "d"
      [] c = "E" -> "e" [] c = "F" -> "f" [] c = "G" -> "g" [] c = "H" -> "h"
      [] c = "I" -> "i" [] c = "J" -> "j" [] c = "K" -> "k" [] c = "L" -> "l"
      [] c = "M" -> "m" [] c = "N" -> "n" [] c = "O" -> "o" [] c = "P" -> "p"
      [] c = "Q" -> "q" [] c = "R" -> "r" [] c = "S" -> "s" [] c = "T" -> "t"
      [] c = "U" -> "u" [] c = "V" -> "v" [] c = "W" -> "w" [] c = "X" -> "x"
      [] c = "Y" -> "y" [] c = "Z" -> "z" [] OTHER -> c

\* str.lower()
Lower(s) == [i \in 1..Len(s) |-> LowerChar(s[i])]

\* c in s
Contains(s, c) == \E i \in 1..Len(s) : s[i] = c

\* s.rfind(c) + 1 for a one-character c: 0 when c does not occur
LastIndexOf(s, c) ==
    IF Contains(s, c)
    THEN CHOOSE i \in 1..Len(s) : s[i] = c /\ \A j \in (i+1)..Len(s) : s[j] # c
    ELSE 0

\* s.split(c)[-1]: what follows the last c, the whole of s when c does not occur
LastPart(s, c) == SubSeq(s, LastIndexOf(s, c) + 1, Len(s))

\* s.strip(chars)
Strip(s, chars) ==
    LET keep == {i \in 1..Len(s) : s[i] \notin chars}
    IN  IF keep = {} THEN <<>>
        ELSE LET lo == CHOOSE i \in keep : \A j \in keep : i <= j
                 hi == CHOOSE i \in keep : \A j \in keep : j <= i
             IN  SubSeq(s, lo, hi)

\* s.lstrip(chars)
LStrip(s, chars) ==
    LET keep == {i \in 1..Len(s) : s[i] \notin chars}
    IN  IF keep = {} THEN <<>>
        ELSE SubSeq(s, CHOOSE i \in keep : \A j \in keep : i <= j, Len(s))

\* a string of n copies of the character c ("c" * n; empty when n <= 0)
Rep(c, n) == [i \in 1..n |-> c]

\* s[:n], for any integer n
SliceTo(s, n) ==
    IF n >= 0 THEN SubSeq(s, 1, Min(n, Len(s)))
    ELSE SubSeq(s, 1, Max(Len(s) + n, 0))

\* s[n:], for any integer n
SliceFrom(s, n) ==
    IF n >= 0 THEN SubSeq(s, n + 1, Len(s))
    ELSE SubSeq(s, Max(Len(s) + n, 0) + 1, Len(s))

\* s.ljust(n), and the format f"{s:<{n}}": padded with spaces, never cut
LJust(s, n) == s \o Rep(" ", n - Len(s))

\* s.center(n): CPython puts marg // 2 + (marg & n & 1) spaces on the left
Center(s, n) ==
    IF Len(s) >= n THEN s
    ELSE LET marg == n - Len(s)
             left == (marg \div 2) + (IF marg % 2 = 1 /\ n % 2 = 1 THEN 1 ELSE 0)
         IN  Rep(" ", left) \o s \o Rep(" ", marg - left)

----------------------------------------------------------------------------
(* normalize_import                                                        *)

\* the extensions of the regular expression of normalize_import
KnownExts ==
    { <<"p","y">>, <<"g","o">>, <<"j","s">>, <<"t","s">>, <<"j","s","x">>,
      <<"t","s","x">>, <<"r","b">>, <<"r","s">>, <<"c">>, <<"h">>,
      <<"c","p","p">>, <<"h","p","p">>, <<"j","a","v","a">>,
      <<"s","w","i","f","t">> }

\* re.sub(r'\.(py|go|...|swift)$', '', s): the extensions hold no dot, so the
\* pattern can only match from the last dot of s to its end
StripKnownExt(s) ==
    IF Contains(s, ".") /\ LastPart(s, ".") \in KnownExts
    THEN SubSeq(s, 1, LastIndexOf(s, ".") - 1)
    ELSE s

\* mutant of DottedTail: what follows the first dot, not the last
DottedTail_AfterFirstDot(s) ==
    SubSeq(s, 1 + (CHOOSE i \in 1..Len(s) :
                     s[i] = "." /\ \A j \in 1..(i-1) : s[j] # "."), Len(s))

\* imp.split(".")[-1], taken when imp has a dot and does not start with one
DottedTail(s) == LastPart(s, ".")

normalize_import(i) ==
    LET s1 == Strip(i, {"\"", "'"})
        s2 == IF Contains(s1, "/") THEN LastPart(s1, "/") ELSE s1
        s3 == IF Contains(s2, ".") /\ s2[1] # "." THEN DottedTail(s2) ELSE s2
        s4 == StripKnownExt(s3)
    IN  Lower(s4)

----------------------------------------------------------------------------
(* File records, language groups and names.                                *)

\* LANG_GROUPS.get(lang, lang)
LANG_GROUPS(lang) ==
    CASE lang = "python" -> "python"
      [] lang = "go" -> "go"
      [] lang = "javascript" -> "js"
      [] lang = "typescript" -> "js"
      [] lang = "rust" -> "rust"
      [] lang = "ruby" -> "ruby"
      [] lang = "c" -> "c"
      [] lang = "cpp" -> "c"
      [] lang = "java" -> "java"
      [] lang = "swift" -> "swift"
      [] lang = "bash" -> "bash"
      [] lang = "kotlin" -> "kotlin"
      [] lang = "c_sharp" -> "c_sharp"
      [] lang = "php" -> "php"
      [] lang = "dart" -> "dart"
      [] lang = "r" -> "r"
      [] OTHER -> lang

\* os.path.basename(path) (POSIX: only "/" separates)
Basename(path) == LastPart(path, "/")

\* re.sub(r'\.[^.]+$', '', s): drops the last dot and what follows it, when
\* something follows it
StripExt(s) ==
    IF LastIndexOf(s, ".") > 0 /\ LastIndexOf(s, ".") < Len(s)
    THEN SubSeq(s, 1, LastIndexOf(s, ".") - 1)
    ELSE s

\* the lookup key of a file: re.sub(r'\.[^.]+$', '', basename).lower()
FileKey(path) == Lower(StripExt(Basename(path)))

\* target_name in deps[path]
InSeq(x, seq) == \E i \in 1..Len(seq) : seq[i] = x

\* the stdlib denylist of find_internal_deps
stdlib_names ==
  {
     <<"e","r","r","o","r","s">>, <<"f","m","t">>, <<"i","o">>, <<"o","s">>,
     <<"p","a","t","h">>, <<"s","y","n","c">>, <<"t","i","m","e">>, <<"c","o","n","t","e","x","t">>,
     <<"h","t","t","p">>, <<"n","e","t">>, <<"b","y","t","e","s">>, <<"s","t","r","i","n","g","s">>,
     <<"s","t","r","c","o","n","v">>, <<"s","o","r","t">>, <<"f","l","a","g">>, <<"l","o","g">>,
     <<"b","u","f","i","o">>, <<"e","n","c","o","d","i","n","g">>, <<"t","e","s","t","i","n","g">>, <<"r","u","n","t","i","m","e">>,
     <<"u","n","s","a","f","e">>, <<"r","e","f","l","e","c","t">>, <<"r","e","g","e","x","p">>, <<"l","o","g","g","i","n","g">>,
     <<"t","y","p","i","n","g">>, <<"c","o","l","l","e","c","t","i","o","n","s">>, <<"d","a","t","e","t","i","m","e">>, <<"j","s","o","n">>,
     <<"s","y","s">>, <<"r","e">>, <<"p","a","t","h","l","i","b">>, <<"h","a","s","h","l","i","b">>,
     <<"b","a","s","e","6","4">>, <<"a","s","y","n","c","i","o">>, <<"e","n","u","m">>, <<"f","u","n","c","t","o","o","l","s">>,
     <<"r","a","n","d","o","m">>, <<"f","s">>, <<"u","t","i","l">>,
     <<"e","v","e","n","t","s">>, <<"s","t","r","e","a","m">>, <<"c","r","y","p","t","o">>,
     <<"h","t","t","p","s">>
  }

\* the stdlib denylist of get_external_uses
stdlib ==
  {
     <<"o","s">>, <<"r","e">>, <<"s","y","s">>, <<"j","s","o","n">>,
     <<"m","a","t","h">>, <<"t","i","m","e">>, <<"c","o","l","l","e","c","t","i","o","n","s">>, <<"d","e","f","a","u","l","t","d","i","c","t">>,
     <<"t","y","p","i","n","g">>, <<"p","a","t","h","l","i","b">>, <<"d","a","t","e","t","i","m","e">>, <<"h","a","s","h","l","i","b">>,
     <<"b","a","s","e","6","4">>, <<"a","s","y","n","c","i","o">>, <<"e","n","u","m">>, <<"l","o","g","g","i","n","g">>,
     <<"c","o","n","t","e","x","t","l","i","b">>, <<"f","u","n","c","t","o","o","l","s">>, <<"i","t","e","r","t","o","o","l","s">>, <<"c","o","p","y">>,
     <<"r","a","n","d","o","m">>, <<"f","m","t">>, <<"i","o">>, <<"f","l","a","g">>,
     <<"p","a","t","h">>, <<"s","t","r","i","n","g","s">>, <<"e","m","b","e","d">>, <<"r","u","n","t","i","m","e">>,
     <<"u","n","s","a","f","e">>, <<"f","i","l","e","p","a","t","h">>, <<"c","o","n","t","e","x","t">>, <<"s","y","n","c">>,
     <<"h","t","t","p">>, <<"n","e","t">>, <<"b","y","t","e","s">>, <<"e","r","r","o","r","s">>,
     <<"s","t","r","c","o","n","v">>, <<"s","o","r","t">>, <<"t","e","s","t","i","n","g">>, <<"l","o","g">>,
     <<"b","u","f","i","o">>, <<"e","n","c","o","d","i","n","g">>, <<"r","e","a","c","t">>, <<"f","s">>,
     <<"u","t","i","l">>, <<"e","v","e","n","t","s">>, <<"s","t","r","e","a","m">>,
     <<"c","r","y","p","t","o">>
  }

----------------------------------------------------------------------------
(* find_internal_deps                                                      *)

\* name_to_infos[name]: the (path, language group) of every file with that
\* key, in file order
name_to_infos(fs, name) ==
    SelectSeq([i \in 1..Len(fs) |->
                  [path |-> fs[i].path, group |-> LANG_GROUPS(fs[i].language)]],
              LAMBDA info : FileKey(info.path) = name)

\* deps.get(path, []) on the insertion-ordered mapping
DepsOf(deps, path) ==
    IF \E i \in 1..Len(deps) : deps[i].path = path
    THEN deps[CHOOSE i \in 1..Len(deps) : deps[i].path = path].targets
    ELSE <<>>

\* mutant of AddDep: the new target is put first
AddDep_Prepend(deps, path, target_name) ==
    IF \E i \in 1..Len(deps) : deps[i].path = path
    THEN [i \in 1..Len(deps) |->
            IF deps[i].path = path /\ ~InSeq(target_name, deps[i].targets)
            THEN [deps[i] EXCEPT !.targets = <<target_name>> \o @]
            ELSE deps[i]]
    ELSE Append(deps, [path |-> path, targets |-> <<target_name>>])

\* if target_name not in deps[path]: deps[path].append(target_name)
AddDep(deps, path, target_name) ==
    IF \E i \in 1..Len(deps) : deps[i].path = path
    THEN [i \in 1..Len(deps) |->
            IF deps[i].path = path /\ ~InSeq(target_name, deps[i].targets)
            THEN [deps[i] EXCEPT !.targets = Append(@, target_name)]
            ELSE deps[i]]
    ELSE Append(deps, [path |-> path, targets |-> <<target_name>>])

\* mutant of SkipCandidate: the language groups are not compared
SkipCandidate_AnyGroup(path, src_group, target) ==
    \/ target.path = path
    \/ Basename(target.path) = Basename(path)

\* mutant of SkipCandidate: only the file itself is skipped by name
SkipCandidate_OtherDirs(path, src_group, target) ==
    \/ target.path = path
    \/ src_group # target.group

\* the candidate is skipped: the file itself, another language group, or a
\* file with the basename of the importing file
SkipCandidate(path, src_group, target) ==
    \/ target.path = path
    \/ src_group # target.group
    \/ Basename(target.path) = Basename(path)

RECURSIVE ScanCandidates(_, _, _, _, _)
ScanCandidates(deps, path, src_group, candidates, k) ==
    IF k > Len(candidates) THEN deps
    ELSE ScanCandidates(
           IF SkipCandidate(path, src_group, candidates[k])
           THEN deps
           ELSE AddDep(deps, path, Basename(candidates[k].path)),
           path, src_group, candidates, k + 1)

\* the import is skipped as standard library
LooksStdlib(i) ==
    \/ ~Contains(i, "/") /\ ~Contains(i, ".") /\ Lower(i) \in stdlib_names
    \/ normalize_import(i) \in stdlib_names

RECURSIVE ScanImports(_, _, _, _)
ScanImports(deps, fs, f, j) ==
    IF j > Len(f.imports) THEN deps
    ELSE ScanImports(
           IF LooksStdlib(f.imports[j])
           THEN deps
           ELSE ScanCandidates(deps, f.path, LANG_GROUPS(f.language),
                               name_to_infos(fs, normalize_import(f.imports[j])), 1),
           fs, f, j + 1)

RECURSIVE ScanFiles(_, _, _)
ScanFiles(deps, fs, i) ==
    IF i > Len(fs) THEN deps
    ELSE ScanFiles(ScanImports(deps, fs, fs[i], 1), fs, i + 1)

find_internal_deps(fs) == ScanFiles(<<>>, fs, 1)

----------------------------------------------------------------------------
(* get_external_uses                                                       *)

RECURSIVE ScanExternal(_, _, _, _)
ScanExternal(external, f, names, j) ==
    IF j > Len(f.imports) THEN external
    ELSE LET norm == normalize_import(f.imports[j])
         IN  ScanExternal(
               IF /\ norm \notin names
                  /\ norm \notin stdlib
                  /\ Len(norm) > 1
                  /\ ~InSeq(norm, external)
               THEN Append(external, norm)
               ELSE external,
               f, names, j + 1)

get_external_uses(f, names) == ScanExternal(<<>>, f, names, 1)

----------------------------------------------------------------------------
(* render: the lookups built from the files (dependency map, incoming      *)
(* counts, systems).                                                       *)

\* the set of normalized file names
InternalNames(fs) == {FileKey(fs[i].path) : i \in 1..Len(fs)}

\* dep_counts[target] += 1 on the insertion-ordered mapping
CountTarget(counts, target) ==
    IF \E i \in 1..Len(counts) : counts[i].name = target
    THEN [i \in 1..Len(counts) |->
            IF counts[i].name = target
            THEN [counts[i] EXCEPT !.count = @ + 1]
            ELSE counts[i]]
    ELSE Append(counts, [name |-> target, count |-> 1])

RECURSIVE CountTargets(_, _, _)
CountTargets(counts, targets, k) ==
    IF k > Len(targets) THEN counts
    ELSE CountTargets(CountTarget(counts, targets[k]), targets, k + 1)

RECURSIVE CountDeps(_, _, _)
CountDeps(counts, deps, i) ==
    IF i > Len(deps) THEN counts
    ELSE CountDeps(CountTargets(counts, deps[i].targets, 1), deps, i + 1)

\* the incoming-dependency count of every target, in insertion order
DepCounts(deps) == CountDeps(<<>>, deps, 1)

\* path.replace("\\", "/")
SlashPath(path) == [i \in 1..Len(path) |-> IF path[i] = "\\" THEN "/" ELSE path[i]]

\* parts[0] if len(parts) > 1 else "."
SystemOf(path) ==
    LET q == SlashPath(path)
    IN  IF Contains(q, "/")
        THEN SubSeq(q, 1, (CHOOSE i \in 1..Len(q) :
                             q[i] = "/" /\ \A j \in 1..(i-1) : q[j] # "/") - 1)
        ELSE <<".">>

\* the order of the characters used in system names, as Python compares them
CharOrder ==
    << " ", "-", ".", "/", "0", "1", "2", "3", "4", "5", "6", "7", "8", "9",
       "A", "B", "C", "D", "E", "F", "G", "H", "I", "J", "K", "L", "M", "N",
       "O", "P", "Q", "R", "S", "T", "U", "V", "W", "X", "Y", "Z", "_",
       "a", "b", "c", "d", "e", "f", "g", "h", "i", "j", "k", "l", "m", "n",
       "o", "p", "q", "r", "s", "t", "u", "v", "w", "x", "y", "z" >>

Ord(c) == CHOOSE i \in 1..Len(CharOrder) : CharOrder[i] = c

\* a < b for Python strings
StrLess(a, b) ==
    \E k \in 1..(Len(a) + 1) :
        /\ \A j \in 1..(k-1) : j <= Len(b) /\ a[j] = b[j]
        /\ k <= Len(b)
        /\ (k = Len(a) + 1 \/ Ord(a[k]) < Ord(b[k]))

RECURSIVE SortedStrings(_)
SortedStrings(set) ==
    IF set = {} THEN <<>>
    ELSE LET least == CHOOSE a \in set : \A b \in set \ {a} : StrLess(a, b)
         IN  <<least>> \o SortedStrings(set \ {least})

\* systems, in the order render visits them: sorted(systems.keys()), each
\* with the indices of its files in file order
Systems(fs) ==
    LET keys == SortedStrings({SystemOf(fs[i].path) : i \in 1..Len(fs)})
    IN  [k \in 1..Len(keys) |->
            [system |-> keys[k],
             members |-> SelectSeq([i \in 1..Len(fs) |-> i],
                                   LAMBDA i : SystemOf(fs[i].path) = keys[k])]]

----------------------------------------------------------------------------
(* render: the section of one system.                                      *)

ChainSubLimit == 3
FlatLimit == 4

\* the path of the first file whose basename is t, <<>> (None) without one
TargetPath(fs, t) ==
    IF \E i \in 1..Len(fs) : Basename(fs[i].path) = t
    THEN fs[CHOOSE i \in 1..Len(fs) :
              /\ Basename(fs[i].path) = t
              /\ \A j \in 1..(i-1) : Basename(fs[j].path) # t].path
    ELSE <<>>

\* the chain printed for a file with targets: the basenames it shows (the
\* text prints each without its extension)
ChainLine(fs, deps, path, targets) ==
    IF Len(targets) = 1
    THEN LET t_path == TargetPath(fs, targets[1])
             sub_targets == IF t_path # <<>> THEN DepsOf(deps, t_path) ELSE <<>>
         IN  IF sub_targets # <<>>
             THEN [kind |-> "chain", src |-> Basename(path), targets |-> targets,
                   subs |-> SubSeq(sub_targets, 1, Min(ChainSubLimit, Len(sub_targets))),
                   more |-> Max(Len(sub_targets) - ChainSubLimit, 0)]
             ELSE [kind |-> "arrow", src |-> Basename(path), targets |-> targets,
                   subs |-> <<>>, more |-> 0]
    ELSE [kind |-> IF Len(targets) <= FlatLimit THEN "flat" ELSE "branch",
          src |-> Basename(path), targets |-> targets, subs |-> <<>>, more |-> 0]

\* the loop over the files of a system: the chains printed and the set
\* `rendered`
RECURSIVE RenderChains(_, _, _, _, _)
RenderChains(acc, fs, deps, members, k) ==
    IF k > Len(members) THEN acc
    ELSE LET path == fs[members[k]].path
             targets == DepsOf(deps, path)
         IN  RenderChains(
               IF Basename(path) \in acc.rendered \/ targets = <<>>
               THEN acc
               ELSE [chains |-> Append(acc.chains, ChainLine(fs, deps, path, targets)),
                     rendered |-> acc.rendered \cup {Basename(path)}],
               fs, deps, members, k + 1)

\* files with functions whose basename is not in `rendered`
StandaloneCount(fs, members, rendered) ==
    Cardinality({k \in 1..Len(members) :
                    /\ Basename(fs[members[k]].path) \notin rendered
                    /\ fs[members[k]].functions # <<>>})

\* the system has a dependency or a function to show
HasContent(fs, deps, members) ==
    \E k \in 1..Len(members) :
        \/ DepsOf(deps, fs[members[k]].path) # <<>>
        \/ fs[members[k]].functions # <<>>

\* what render prints for one system
RenderSystem(fs, deps, sys) ==
    IF ~HasContent(fs, deps, sys.members)
    THEN [system |-> sys.system, members |-> sys.members, shown |-> FALSE,
          chains |-> <<>>, rendered |-> {},
          standalone_count |-> 0, standalone_line |-> FALSE]
    ELSE LET r == RenderChains([chains |-> <<>>, rendered |-> {}],
                               fs, deps, sys.members, 1)
             n == StandaloneCount(fs, sys.members, r.rendered)
         IN  [system |-> sys.system, members |-> sys.members, shown |-> TRUE,
              chains |-> r.chains, rendered |-> r.rendered,
              standalone_count |-> n, standalone_line |-> n > 0]

----------------------------------------------------------------------------
(* render: hubs and summary.                                               *)

HubLimit == 6
HubMinCount == 2

\* sorted(dep_counts.items(), key=lambda x: -x[1]): a stable sort, count
\* descending
RECURSIVE SortByCount(_)
SortByCount(counts) ==
    IF counts = <<>> THEN <<>>
    ELSE LET first == CHOOSE i \in 1..Len(counts) :
                        /\ \A j \in 1..Len(counts) : counts[j].count <= counts[i].count
                        /\ \A j \in 1..(i-1) : counts[j].count < counts[i].count
         IN  <<counts[first]>> \o
             SortByCount(SubSeq(counts, 1, first - 1) \o
                         SubSeq(counts, first + 1, Len(counts)))

\* mutant of Hubs: the counts are not sorted before the cut
Hubs_Unsorted(counts) ==
    SelectSeq(SubSeq(counts, 1, Min(HubLimit, Len(counts))),
              LAMBDA h : h.count >= HubMinCount)

\* hubs = [... for name, count in sorted(...)[:6] if count >= 2]
Hubs(counts) ==
    LET top == SubSeq(SortByCount(counts), 1, Min(HubLimit, Len(counts)))
    IN  SelectSeq(top, LAMBDA h : h.count >= HubMinCount)

RECURSIVE SumLen(_, _)
SumLen(seqs, i) == IF i > Len(seqs) THEN 0 ELSE Len(seqs[i]) + SumLen(seqs, i + 1)

\* the HUBS line and the summary line
Summary(fs, deps, counts) ==
    [hubs_line |-> counts # <<>> /\ Hubs(counts) # <<>>,
     files |-> Len(fs),
     functions |-> SumLen([i \in 1..Len(fs) |-> fs[i].functions], 1),
     deps |-> SumLen([i \in 1..Len(deps) |-> deps[i].targets], 1)]

----------------------------------------------------------------------------
(* render: the header panel.                                               *)

\* the box-drawing characters of the panel, one character each
PanelTopLeft == "(top-left)"
PanelTopRight == "(top-right)"
PanelBottomLeft == "(bottom-left)"
PanelBottomRight == "(bottom-right)"
PanelTeeLeft == "(tee-left)"
PanelTeeRight == "(tee-right)"
PanelBar == "(bar)"
PanelDash == "(dash)"

PanelCap == 80
TitlePadding == 6
LinePadding == 4

\* f"{project_name} - Dependency Flow"
Title(name) == name \o <<" ","-"," ","D","e","p","e","n","d","e","n","c","y"," ","F","l","o","w">>

\* re.match(r'^v\d+$', name)
IsVersion(name) ==
    /\ Len(name) >= 2
    /\ name[1] = "v"
    /\ \A i \in 2..Len(name) :
          name[i] \in {"0", "1", "2", "3", "4", "5", "6", "7", "8", "9"}

\* the name shown for a dependency path: its last segment, or the one
\* before it when the last is a version such as v2
DepName(d) ==
    IF IsVersion(LastPart(d, "/")) /\ Contains(d, "/")
    THEN LastPart(SubSeq(d, 1, LastIndexOf(d, "/") - 1), "/")
    ELSE LastPart(d, "/")

RECURSIVE DepNames(_, _, _)
DepNames(names, deps, k) ==
    IF k > Len(deps) THEN names
    ELSE DepNames(
           IF /\ ~IsVersion(DepName(deps[k]))
              /\ Len(DepName(deps[k])) > 1
              /\ ~InSeq(DepName(deps[k]), names)
           THEN Append(names, DepName(deps[k]))
           ELSE names,
           deps, k + 1)

\* ", ".join(names)
RECURSIVE JoinNames(_, _)
JoinNames(names, k) ==
    IF k > Len(names) THEN <<>>
    ELSE (IF k > 1 THEN <<",", " ">> ELSE <<>>) \o names[k] \o JoinNames(names, k + 1)

\* the languages of the panel, in the order render lists them
PanelLangs ==
    << "go", "javascript", "python", "swift", "rust", "ruby", "bash", "kotlin",
       "c_sharp", "php", "dart", "r" >>

lang_labels(lang) ==
    CASE lang = "go" -> <<"G","o">>
      [] lang = "javascript" -> <<"J","S">>
      [] lang = "python" -> <<"P","y">>
      [] lang = "rust" -> <<"R","s">>
      [] lang = "ruby" -> <<"R","b">>
      [] lang = "swift" -> <<"S","w","i","f","t">>
      [] lang = "bash" -> <<"S","h">>
      [] lang = "kotlin" -> <<"K","t">>
      [] lang = "c_sharp" -> <<"C","#">>
      [] lang = "php" -> <<"P","H","P">>
      [] lang = "dart" -> <<"D","a","r","t">>
      [] lang = "r" -> <<"R">>

\* ext_by_lang[lang], <<>> when the language has no entry
ExtByLang(data, lang) ==
    IF lang \in DOMAIN data /\ data[lang] # <<>>
    THEN DepNames(<<>>, data[lang], 1)
    ELSE <<>>

RECURSIVE DepLines(_, _)
DepLines(data, k) ==
    IF k > Len(PanelLangs) THEN <<>>
    ELSE (IF ExtByLang(data, PanelLangs[k]) # <<>>
          THEN << lang_labels(PanelLangs[k]) \o <<":", " ">>
                    \o JoinNames(ExtByLang(data, PanelLangs[k]), 1) >>
          ELSE <<>>)
         \o DepLines(data, k + 1)

RECURSIVE WidestLine(_, _, _)
WidestLine(w, ls, k) ==
    IF k > Len(ls) THEN w
    ELSE WidestLine(IF Len(ls[k]) + LinePadding > w
                    THEN Len(ls[k]) + LinePadding ELSE w,
                    ls, k + 1)

\* max_width after the cap
MaxWidth(title, ls) ==
    Min(WidestLine(Len(title) + TitlePadding, ls, 1), PanelCap)

\* s.rfind(", "): the 0-based index of the last ", " of s, -1 without one
RFindCommaSpace(s) ==
    LET at == {i \in 1..(Len(s) - 1) : s[i] = "," /\ s[i+1] = " "}
    IN  IF at = {} THEN -1
        ELSE (CHOOSE i \in at : \A j \in at : j <= i) - 1

\* mutant of BreakAt: the comma is not included in the piece
BreakAt_BeforeComma(l, content_width) ==
    IF RFindCommaSpace(SliceTo(l, content_width)) = -1
    THEN content_width - 1
    ELSE RFindCommaSpace(SliceTo(l, content_width))

\* where the wrap loop breaks a line longer than content_width
BreakAt(l, content_width) ==
    IF RFindCommaSpace(SliceTo(l, content_width)) = -1
    THEN content_width - 1
    ELSE RFindCommaSpace(SliceTo(l, content_width)) + 1

\* line = "    " + line[break_at:].lstrip(" ")
Continuation(l, break_at) ==
    <<" ", " ", " ", " ">> \o LStrip(SliceFrom(l, break_at), {" "})

\* f"| {text:<{content_width}} |"
PanelLine(text, content_width) ==
    <<PanelBar, " ">> \o LJust(text, content_width) \o <<" ", PanelBar>>

PanelTop(inner_width) ==
    <<PanelTopLeft>> \o Rep(PanelDash, inner_width) \o <<PanelTopRight>>
PanelSeparator(inner_width) ==
    <<PanelTeeLeft>> \o Rep(PanelDash, inner_width) \o <<PanelTeeRight>>
PanelBottom(inner_width) ==
    <<PanelBottomLeft>> \o Rep(PanelDash, inner_width) \o <<PanelBottomRight>>
PanelTitle(title, inner_width) ==
    <<PanelBar>> \o Center(title, inner_width) \o <<PanelBar>>

----------------------------------------------------------------------------
(* The file lists given to render.                                         *)

FileRecord(path, language, imports, functions) ==
    [path |-> path, language |-> language, imports |-> imports,
     functions |-> functions]

\* file records of a small project: same basenames in two directories, the
\* same name in several languages, imports of own names, of standard-library
\* names and of external packages
RecordPool ==
    {
      \* a/u.py (python) imports []
      FileRecord(<<"a","/","u",".","p","y">>, "python",
                 <<>>, <<"f">>),
      \* a/u.py (python) imports [u, m]
      FileRecord(<<"a","/","u",".","p","y">>, "python",
                 <<<<"u">>, <<"m">>>>, <<>>),
      \* b/u.py (python) imports [a.u]
      FileRecord(<<"b","/","u",".","p","y">>, "python",
                 <<<<"a",".","u">>>>, <<"f">>),
      \* a/m.py (python) imports []
      FileRecord(<<"a","/","m",".","p","y">>, "python",
                 <<>>, <<"f">>),
      \* a/m.py (python) imports [./u]
      FileRecord(<<"a","/","m",".","p","y">>, "python",
                 <<<<".","/","u">>>>, <<>>),
      \* a/m.py (python) imports [fmt, U, lodash]
      FileRecord(<<"a","/","m",".","p","y">>, "python",
                 <<<<"f","m","t">>, <<"U">>, <<"l","o","d","a","s","h">>>>, <<"f", "g">>),
      \* fmt.go (go) imports []
      FileRecord(<<"f","m","t",".","g","o">>, "go",
                 <<>>, <<"f">>),
      \* m.go (go) imports [fmt, regexp, x/fmt, cobra]
      FileRecord(<<"m",".","g","o">>, "go",
                 <<<<"f","m","t">>, <<"r","e","g","e","x","p">>, <<"x","/","f","m","t">>, <<"c","o","b","r","a">>>>, <<"f">>),
      \* u.js (javascript) imports []
      FileRecord(<<"u",".","j","s">>, "javascript",
                 <<>>, <<"f">>),
      \* u.ts (typescript) imports [u]
      FileRecord(<<"u",".","t","s">>, "typescript",
                 <<<<"u">>>>, <<>>),
      \* b/m.ts (typescript) imports [./u, react]
      FileRecord(<<"b","/","m",".","t","s">>, "typescript",
                 <<<<".","/","u">>, <<"r","e","a","c","t">>>>, <<"f">>),
      \* b/m.ts (typescript) imports [U, m, u]
      FileRecord(<<"b","/","m",".","t","s">>, "typescript",
                 <<<<"U">>, <<"m">>, <<"u">>>>, <<>>),
      \* b/u.c (c) imports []
      FileRecord(<<"b","/","u",".","c">>, "c",
                 <<>>, <<"f">>),
      \* b/u.hpp (cpp) imports ["u.h", u]
      FileRecord(<<"b","/","u",".","h","p","p">>, "cpp",
                 <<<<"\"","u",".","h","\"">>, <<"u">>>>, <<>>),
      \* u.lua (lua) imports []
      FileRecord(<<"u",".","l","u","a">>, "lua",
                 <<>>, <<"f">>),
      \* m.lua (lua) imports [u]
      FileRecord(<<"m",".","l","u","a">>, "lua",
                 <<<<"u">>>>, <<>>)
    }
\* lists of at most MaxFiles records with different paths
GeneralFileLists ==
    {fl \in UNION {[1..k -> RecordPool] : k \in 0..MaxFiles} :
        \A i, j \in 1..Len(fl) : i # j => fl[i].path # fl[j].path}

\* a project of NumLibs library files lib/<letter>.py and three importers
LibLetters ==
    << "a", "b", "c", "d", "e", "f", "g", "h", "i", "j", "k", "l", "m", "n",
       "o", "p" >>

LibFile(n) == FileRecord(<<"l","i","b","/">> \o <<LibLetters[n]>> \o <<".","p","y">>,
                         "python", <<>>, <<"f">>)

Importer(name, imports) ==
    FileRecord(<<"a","p","p","/">> \o <<name>> \o <<".","p","y">>,
               "python", imports, <<>>)

\* x imports the first px libraries, y the first py, z the last sz in
\* reverse order
HubFileLists ==
    {   << Importer("x", [n \in 1..px |-> <<LibLetters[n]>>]),
           Importer("y", [n \in 1..py |-> <<LibLetters[n]>>]),
           Importer("z", [n \in 1..sz |-> <<LibLetters[NumLibs + 1 - n]>>]) >>
        \o [n \in 1..NumLibs |-> LibFile(n)]
      : px \in 0..NumLibs, py \in 0..NumLibs, sz \in 0..NumLibs }

FileLists == GeneralFileLists \cup HubFileLists

----------------------------------------------------------------------------
(* The project names and external dependencies given to render.            *)

ProjectNames == {Rep("p", n) : n \in 0..MaxNameLen}

\* a few paths, one with a version segment, a bare version, a one-letter
\* name and a repeated name
ShortDeps ==
    << <<"x","/","c","o","b","r","a">>, <<"y","/","y","a","m","l","/","v","2">>, <<"v","3">>, <<"q">>, <<"z","/","c","o","b","r","a">> >>

\* MaxDeps paths m/<nine letters>
ManyDeps == [k \in 1..MaxDeps |-> <<"m", "/">> \o Rep(LibLetters[k], 9)]

\* one name longer than two panel lines
HugeDep == << Rep("z", HugeLen) >>

\* a name that starts with a comma and a space
CommaDep == << <<",", " ">> \o Rep("k", HugeLen) >>

\* a name with a run of spaces where the line is broken
SpacedDep == << Rep("w", 70) \o Rep(" ", 8) \o Rep("w", 30), <<"a", "b">> >>

\* a name made of commas and spaces
CommasDep == << [i \in 1..HugeLen |-> IF i % 2 = 1 THEN "," ELSE " "] >>

DepListPool ==
    {<<>>, ShortDeps, ManyDeps, HugeDep, CommaDep, SpacedDep, CommasDep}

ExternalDeps ==
    {[go |-> g, r |-> r, typescript |-> t] :
        g \in DepListPool, r \in DepListPool, t \in {<<>>, ShortDeps}}

\* the files rendered below the panels of InitPanel
PanelFiles ==
    << FileRecord(<<"c","m","d","/","m","a","i","n",".","g","o">>, "go", <<<<"f","m","t">>, <<".","/","u","t","i","l">>>>, <<"main">>),
       FileRecord(<<"c","m","d","/","u","t","i","l",".","g","o">>, "go", <<>>, <<"f", "g">>) >>

----------------------------------------------------------------------------
(* Specification Spec: render, followed by get_external_uses on each file. *)

\* file lists, under a short project name and no external dependencies
InitFiles ==
    /\ pc = "files_input"
    /\ files \in FileLists
    /\ project_name = <<"p">>
    /\ external_deps_data = <<>>

\* project names and external dependencies, over a fixed file list
InitPanel ==
    /\ pc = "files_input"
    /\ \/ /\ files = PanelFiles
          /\ \/ /\ project_name \in ProjectNames
                /\ external_deps_data \in
                      {<<>>, [go |-> ShortDeps], [go |-> ManyDeps, r |-> <<>>]}
             \/ /\ project_name \in {Rep("p", n) : n \in 0..2}
                /\ external_deps_data \in ExternalDeps
       \/ /\ files = <<>>
          /\ project_name = <<"p">>
          /\ external_deps_data = [go |-> ShortDeps]

InitRest ==
    /\ internal_names = {} /\ internal_deps = <<>> /\ dep_counts = <<>>
    /\ systems = <<>> /\ external_uses = <<>> /\ printed = <<>>
    /\ hubs = <<>> /\ summary = <<>>
    /\ dep_lines = <<>> /\ max_width = 0 /\ line_idx = 0 /\ line = <<>>
    /\ out = <<>>
    /\ NormIdle
    /\ BoxIdle

Init == (InitFiles \/ InitPanel) /\ InitRest

\* if not files: print("  No source files found."); return
NoFiles ==
    /\ pc = "files_input"
    /\ files = <<>>
    /\ pc' = "no_files"
    /\ UNCHANGED <<boxVars, normVars, fileVars, panelVars>>

\* internal_names, find_internal_deps, dep_counts, systems
BuildLookups ==
    /\ pc = "files_input"
    /\ files # <<>>
    /\ internal_names' = InternalNames(files)
    /\ internal_deps' = find_internal_deps(files)
    /\ dep_counts' = DepCounts(internal_deps')
    /\ systems' = Systems(files)
    /\ pc' = "header"
    /\ UNCHANGED <<boxVars, normVars, files, external_uses, printed, hubs, summary,
                   panelVars>>

\* the header panel down to its first dependency line: the width, the top
\* border, the title and, with dependency lines, the separator
RenderHeader ==
    /\ pc = "header"
    /\ dep_lines' = DepLines(external_deps_data, 1)
    /\ max_width' = MaxWidth(Title(project_name), dep_lines')
    /\ LET inner_width == max_width' - 2
       IN  IF dep_lines' # <<>>
           THEN /\ out' = << PanelTop(inner_width),
                            PanelTitle(Title(project_name), inner_width),
                            PanelSeparator(inner_width) >>
                /\ line_idx' = 1
                /\ line' = dep_lines'[1]
                /\ pc' = "wrap"
           ELSE /\ out' = << PanelTop(inner_width),
                            PanelTitle(Title(project_name), inner_width),
                            PanelBottom(inner_width) >>
                /\ line_idx' = 0
                /\ line' = <<>>
                /\ pc' = "systems"
    /\ UNCHANGED <<boxVars, normVars, fileVars, project_name, external_deps_data>>

\* one iteration of `while len(line) > content_width`
WrapLine ==
    /\ pc = "wrap"
    /\ Len(line) > max_width - 4
    /\ \E break_at \in {BreakAt(line, max_width - 4)} :
          /\ out' = Append(out, PanelLine(SliceTo(line, break_at), max_width - 4))
          /\ line' = Continuation(line, break_at)
    /\ UNCHANGED <<pc, boxVars, normVars, fileVars, project_name, external_deps_data,
                   dep_lines, max_width, line_idx>>

\* the end of the while loop: the rest of the line is printed, then the
\* next dependency line is taken or the panel is closed
EmitLine ==
    /\ pc = "wrap"
    /\ Len(line) <= max_width - 4
    /\ IF line_idx < Len(dep_lines)
       THEN /\ out' = Append(out, PanelLine(line, max_width - 4))
            /\ line_idx' = line_idx + 1
            /\ line' = dep_lines[line_idx + 1]
            /\ pc' = "wrap"
       ELSE /\ out' = out \o << PanelLine(line, max_width - 4),
                                PanelBottom(max_width - 2) >>
            /\ line_idx' = line_idx
            /\ line' = <<>>
            /\ pc' = "systems"
    /\ UNCHANGED <<boxVars, normVars, fileVars, project_name, external_deps_data,
                   dep_lines, max_width>>

\* for system in sorted(systems.keys()): ...
RenderSystems ==
    /\ pc = "systems"
    /\ printed' = [k \in 1..Len(systems) |->
                      RenderSystem(files, internal_deps, systems[k])]
    /\ pc' = "hubs"
    /\ UNCHANGED <<boxVars, normVars, files, internal_names, internal_deps, dep_counts,
                   systems, external_uses, hubs, summary, panelVars>>

\* the HUBS section and the summary line
RenderHubs ==
    /\ pc = "hubs"
    /\ hubs' = IF dep_counts # <<>> THEN Hubs(dep_counts) ELSE <<>>
    /\ summary' = Summary(files, internal_deps, dep_counts)
    /\ pc' = "summary"
    /\ UNCHANGED <<boxVars, normVars, files, internal_names, internal_deps, dep_counts,
                   systems, external_uses, printed, panelVars>>

\* get_external_uses(f, internal_names) for every file
ExternalUses ==
    /\ pc = "summary"
    /\ external_uses' = [i \in 1..Len(files) |->
                            get_external_uses(files[i], internal_names)]
    /\ pc' = "done"
    /\ UNCHANGED <<boxVars, normVars, files, internal_names, internal_deps, dep_counts,
                   systems, printed, hubs, summary, panelVars>>

Next ==
    \/ NoFiles
    \/ BuildLookups
    \/ RenderHeader
    \/ WrapLine
    \/ EmitLine
    \/ RenderSystems
    \/ RenderHubs
    \/ ExternalUses

Spec == Init /\ [][Next]_vars

PanelInit == InitPanel /\ InitRest

\* the wrap loop and the statements after it are sequential code: each takes
\* its step as long as it has one
SpecPanel ==
    /\ PanelInit
    /\ [][Next]_vars
    /\ WF_vars(WrapLine) /\ WF_vars(EmitLine)
    /\ WF_vars(RenderSystems) /\ WF_vars(RenderHubs)

\* the targets recorded for the i-th file
Targets(i) == DepsOf(internal_deps, files[i].path)

(* C1: every entry of the dependency list of a file is the basename of     *)
(* another file of the input whose language group equals the group of the  *)
(* file; no edge connects files of different language groups.              *)
C1_SameGroupEdges ==
    pc = "done" =>
        /\ \A e \in 1..Len(internal_deps) :
              \E i \in 1..Len(files) : files[i].path = internal_deps[e].path
        /\ \A i \in 1..Len(files) : \A t \in 1..Len(Targets(i)) :
              \E k \in 1..Len(files) :
                  /\ files[k].path # files[i].path
                  /\ Basename(files[k].path) = Targets(i)[t]
                  /\ LANG_GROUPS(files[k].language) = LANG_GROUPS(files[i].language)

\* a file links to a file of another language of its group, while a file of
\* another group with the imported name exists and gets no edge
C1_Witness ==
    /\ pc = "done"
    /\ \E i, k, x \in 1..Len(files) :
          /\ InSeq(Basename(files[k].path), Targets(i))
          /\ files[k].language # files[i].language
          /\ LANG_GROUPS(files[k].language) = LANG_GROUPS(files[i].language)
          /\ FileKey(files[x].path) = FileKey(files[k].path)
          /\ LANG_GROUPS(files[x].language) # LANG_GROUPS(files[i].language)
          /\ ~InSeq(Basename(files[x].path), Targets(i))

(* C2: the basename of a file is never an element of the dependency list   *)
(* built for its path, also when the file imports its own name or another  *)
(* directory holds a file with the same basename.                          *)
C2_NoSelfEdge ==
    pc = "done" =>
        \A i \in 1..Len(files) : ~InSeq(Basename(files[i].path), Targets(i))

\* a file with dependencies imports its own name, and a file of another
\* directory has its basename
C2_Witness ==
    /\ pc = "done"
    /\ \E i, k \in 1..Len(files) :
          /\ files[k].path # files[i].path
          /\ Basename(files[k].path) = Basename(files[i].path)
          /\ LANG_GROUPS(files[k].language) = LANG_GROUPS(files[i].language)
          /\ \E j \in 1..Len(files[i].imports) :
                /\ ~LooksStdlib(files[i].imports[j])
                /\ normalize_import(files[i].imports[j]) = FileKey(files[i].path)
          /\ Targets(i) # <<>>

\* the number of files whose dependency list contains the basename b
Incoming(b) == Cardinality({i \in 1..Len(files) : InSeq(b, Targets(i))})

\* every basename that is a target of some file
AllTargets ==
    UNION {{Targets(i)[t] : t \in 1..Len(Targets(i))} : i \in 1..Len(files)}

(* C5: the hub list has at most 6 entries, counts non-increasing in        *)
(* listing order, every count at least 2 and equal to the number of files  *)
(* whose dependency list contains the basename; the HUBS line is printed   *)
(* only if a basename qualifies, and no basename with a count higher than  *)
(* a listed one is left out.                                               *)
C5_Hubs ==
    pc = "done" =>
        /\ Len(hubs) <= 6
        /\ \A a, b \in 1..Len(hubs) : a < b =>
              hubs[a].count >= hubs[b].count /\ hubs[a].name # hubs[b].name
        /\ \A a \in 1..Len(hubs) :
              hubs[a].count >= 2 /\ hubs[a].count = Incoming(hubs[a].name)
        /\ summary.hubs_line => \E b \in AllTargets : Incoming(b) >= 2
        /\ summary.hubs_line <=> hubs # <<>>
        /\ \A b \in AllTargets :
              (\E a \in 1..Len(hubs) : Incoming(b) > hubs[a].count)
                  => \E a \in 1..Len(hubs) : hubs[a].name = b

\* more than six basenames qualify, six are listed, and their counts differ
C5_Witness ==
    /\ pc = "done"
    /\ Cardinality({b \in AllTargets : Incoming(b) >= 2}) > 6
    /\ Len(hubs) = 6
    /\ summary.hubs_line
    /\ hubs[1].count > hubs[6].count
    /\ \E a \in 1..Len(dep_counts) :
          dep_counts[a].count < hubs[1].count /\ dep_counts[1].count < hubs[1].count

(* C6: an import the resolver recognises as standard library produces no   *)
(* internal dependency edge, and its normalized name is not in the         *)
(* external usage list of the importing file.                              *)
C6_StdlibFiltered ==
    pc = "done" =>
        \A i \in 1..Len(files) : \A j \in 1..Len(files[i].imports) :
            LooksStdlib(files[i].imports[j]) =>
                /\ \A t \in 1..Len(Targets(i)) :
                      FileKey(Targets(i)[t]) # normalize_import(files[i].imports[j])
                /\ ~InSeq(normalize_import(files[i].imports[j]), external_uses[i])

\* for every import of file i, the files it resolves to
Resolved(i) ==
    LET norms == [j \in 1..Len(files[i].imports) |->
                     IF LooksStdlib(files[i].imports[j]) THEN <<"stdlib">>
                     ELSE <<"name", normalize_import(files[i].imports[j])>>]
        keys == [k \in 1..Len(files) |-> FileKey(files[k].path)]
    IN  [j \in 1..Len(files[i].imports) |->
            {k \in 1..Len(files) :
                /\ norms[j] = <<"name", keys[k]>>
                /\ files[k].path # files[i].path
                /\ LANG_GROUPS(files[k].language) = LANG_GROUPS(files[i].language)
                /\ Basename(files[k].path) # Basename(files[i].path)}]

(* C8, as stated: when an import of f (one the resolver does not skip)     *)
(* normalizes to a name shared by several files of f's language group, the *)
(* dependency list of f gets one entry per such file other than f and      *)
(* files with f's basename.                                                *)
C8_OneEntryPerFile ==
    pc = "done" =>
        \A i \in 1..Len(files) :
            LET r == Resolved(i)
                ts == Targets(i)
            IN  \A j \in 1..Len(files[i].imports) :
                    Cardinality({t \in 1..Len(ts) :
                                    \E k \in r[j] : Basename(files[k].path) = ts[t]})
                        >= Cardinality(r[j])

\* the first (import, file) pair of the table r that discovers basename b
Discovery(r, b) ==
    LET pairs == UNION {{<<j, k>> : k \in {x \in r[j] : Basename(files[x].path) = b}}
                        : j \in DOMAIN r}
    IN  CHOOSE d \in pairs :
            \A e \in pairs : d[1] < e[1] \/ (d[1] = e[1] /\ d[2] <= e[2])

Before(d, e) == d[1] < e[1] \/ (d[1] = e[1] /\ d[2] < e[2])

(* C8, amended: the dependency list of f holds the basename of every file  *)
(* that an import of f, not skipped as standard library, resolves to (a    *)
(* file of f's group with the normalized name, other than f and files with *)
(* f's basename); each basename is listed once, so files that share a      *)
(* basename share one entry, and the entries are in first-discovered       *)
(* order.                                                                  *)
C8_EveryBasenameOnce ==
    pc = "done" =>
        \A i \in 1..Len(files) :
            LET r == Resolved(i)
                ts == Targets(i)
                found == UNION {{Basename(files[k].path) : k \in r[j]} : j \in DOMAIN r}
            IN  /\ {ts[a] : a \in 1..Len(ts)} = found
                /\ Len(ts) = Cardinality(found)
                /\ LET disc == [a \in 1..Len(ts) |-> Discovery(r, ts[a])]
                   IN  \A a, b \in 1..Len(ts) : a < b => Before(disc[a], disc[b])

\* one import of a file resolves to two files with different basenames, and
\* the file's dependency list holds both
C8_Witness ==
    /\ pc = "done"
    /\ \E i \in 1..Len(files) :
          \E j \in 1..Len(files[i].imports) :
             /\ Cardinality({Basename(files[k].path) : k \in Resolved(i)[j]}) >= 2
             /\ Len(Targets(i)) >= 2

\* the basenames a system's chain lines show, as source or as target
ShownInChains(p) ==
    UNION {{p.chains[c].src}
              \cup {p.chains[c].targets[t] : t \in 1..Len(p.chains[c].targets)}
              \cup {p.chains[c].subs[t] : t \in 1..Len(p.chains[c].subs)}
           : c \in 1..Len(p.chains)}

\* the files of the system with functions that no chain line shows
NotShownWithFunctions(p) ==
    {k \in 1..Len(p.members) :
        /\ files[p.members[k]].functions # <<>>
        /\ Basename(files[p.members[k]].path) \notin ShownInChains(p)}

(* C9: for each system printed, the `+<n> standalone files` line is        *)
(* printed exactly when n > 0, n being the number of files of the system   *)
(* with functions that no chain line of the system shows, as source or as  *)
(* target.                                                                 *)
C9_StandaloneNotShown ==
    pc = "done" =>
        \A s \in 1..Len(printed) : printed[s].shown =>
            /\ printed[s].standalone_count
                  = Cardinality(NotShownWithFunctions(printed[s]))
            /\ printed[s].standalone_line
                  <=> Cardinality(NotShownWithFunctions(printed[s])) > 0

\* min(max(len(title) + 6, longest dependency line + 4), 80)
ExpectedPanelWidth ==
    LET widths == {Len(Title(project_name)) + 6}
                     \cup {Len(dep_lines[k]) + 4 : k \in 1..Len(dep_lines)}
        widest == CHOOSE w \in widths : \A v \in widths : v <= w
    IN  IF widest <= 80 THEN widest ELSE 80

(* C7: the header panel has width min(max(len(title)+6, longest dep-line   *)
(* length+4), 80), and every line of the panel (borders, title, separator, *)
(* wrapped dependency lines) has exactly that width, hence at most 80.     *)
C7_PanelWidth ==
    pc \in {"systems", "hubs", "summary", "done"} =>
        /\ max_width = ExpectedPanelWidth
        /\ \A k \in 1..Len(out) : Len(out[k]) = ExpectedPanelWidth

(* C10: the loop that wraps a long dependency line of the header panel     *)
(* terminates: each iteration prints a piece that fits the content width   *)
(* and leaves a strictly shorter line, and render reaches the summary.     *)
C10_WrapTerminates ==
    /\ [][(pc = "wrap" /\ Len(line) > max_width - 4) =>
            /\ Len(line') < Len(line)
            /\ Len(out') = Len(out) + 1
            /\ Len(out'[Len(out')]) = max_width]_vars
    /\ (pc = "wrap") ~> (pc = "summary")

\* the summary is reached after a line without a comma was broken hard and
\* a line was broken at a comma
C10_Witness ==
    /\ pc = "summary"
    /\ Len(out) > Len(dep_lines) + 6
    /\ \E k \in 1..Len(dep_lines) :
          Len(dep_lines[k]) > max_width - 4 /\ RFindCommaSpace(dep_lines[k]) = -1
    /\ \E k \in 1..Len(dep_lines) :
          Len(dep_lines[k]) > max_width - 4 /\ RFindCommaSpace(dep_lines[k]) > 4

----------------------------------------------------------------------------
(* create_box_lines and draw_box                                           *)

\* the box-drawing characters and the function sign, one character each
BoxTopLeft == "(box-top-left)"
BoxTopRight == "(box-top-right)"
BoxBottomLeft == "(box-bottom-left)"
BoxBottomRight == "(box-bottom-right)"
BoxBar == "(box-bar)"
BoxDash == "(box-dash)"
FunctionSign == "(function-sign)"

DefaultWidth == 34
BoxFunctionLimit == 6

truncate_with_ellipsis(text, max_len) ==
    IF Len(text) <= max_len THEN text
    ELSE SliceTo(text, max_len - 2) \o <<".", ".">>

\* str(n) for n >= 0
RECURSIVE Decimal(_)
Decimal(n) ==
    LET digit == <<"0", "1", "2", "3", "4", "5", "6", "7", "8", "9">>[(n % 10) + 1]
    IN  IF n < 10 THEN <<digit>> ELSE Decimal(n \div 10) \o <<digit>>

\* the loop over the external dependencies: the lines flushed and the
\* current line
RECURSIVE WrapUses(_, _, _, _)
WrapUses(acc, external, inner, k) ==
    IF k > Len(external) THEN acc
    ELSE LET addition == IF k = 1 THEN external[k] ELSE <<",", " ">> \o external[k]
         IN  WrapUses(
               IF Len(acc.current_line) + Len(addition) <= inner
               THEN [acc EXCEPT !.current_line = @ \o addition]
               ELSE [flushed |-> Append(acc.flushed, acc.current_line),
                     current_line |-> Rep(" ", 6) \o external[k]],
               external, inner, k + 1)

create_box_lines(path, functions, external, w) ==
    LET inner == w - 4
        head == << truncate_with_ellipsis(Basename(path), inner),
                   Rep(BoxDash, inner) >>
        shown == SubSeq(functions, 1, Min(BoxFunctionLimit, Len(functions)))
        fns == [k \in 1..Len(shown) |->
                   <<FunctionSign, " ">> \o shown[k] \o <<"(", ")">>]
        more == IF Len(functions) > BoxFunctionLimit
                THEN << <<" ", " ", "+">>
                          \o Decimal(Len(functions) - BoxFunctionLimit)
                          \o <<" ", "m", "o", "r", "e">> >>
                ELSE <<>>
        uses == WrapUses([flushed |-> <<>>,
                          current_line |-> <<"u", "s", "e", "s", ":", " ">>],
                         external, inner, 1)
        tail == IF external = <<>> THEN <<>>
                ELSE << <<>> >> \o uses.flushed
                       \o (IF Strip(uses.current_line, {" ", "\t", "\n"}) # <<>>
                           THEN <<uses.current_line>> ELSE <<>>)
    IN  head \o fns \o more \o tail

\* mutant of BoxText: the line is padded but not cut
BoxText_NotCut(l, inner) == LJust(l, inner)

\* line[:inner].ljust(inner)
BoxText(l, inner) == LJust(SliceTo(l, inner), inner)

draw_box(ls, w) ==
    << <<BoxTopLeft>> \o Rep(BoxDash, w - 2) \o <<BoxTopRight>> >>
    \o [k \in 1..Len(ls) |->
           <<BoxBar, " ">> \o BoxText(ls[k], w - 4) \o <<" ", BoxBar>>]
    \o << <<BoxBottomLeft>> \o Rep(BoxDash, w - 2) \o <<BoxBottomRight>> >>

----------------------------------------------------------------------------
(* Specification SpecBox: draw_box on given lines, and on the lines that   *)
(* create_box_lines builds.                                                *)

BoxWidths == (0..MaxBoxWidth) \cup {DefaultWidth}

\* lines of 0..MaxLineLen characters and one longer than the default box
RawLines == {Rep("x", n) : n \in 0..MaxLineLen} \cup {Rep("x", DefaultWidth + MaxLineLen)}

BoxPaths == { <<"a","/","u",".","p","y">>, <<"s", "r", "c", "/">> \o Rep("n", DefaultWidth) \o <<".", "p", "y">> }

\* k functions, the j-th with a name of 4 * j letters
BoxFunctions == {[j \in 1..k |-> Rep("f", 4 * j)] : k \in 0..MaxFunctions}

\* m external names of 3 or of 9 letters
BoxExternals ==
    {[j \in 1..m |-> Rep("e", n)] : m \in 0..MaxExternal, n \in {3, 9}}

InitBox ==
    /\ width \in BoxWidths
    /\ \/ /\ pc = "box_lines"
          /\ lines \in UNION {[1..k -> RawLines] : k \in 0..MaxLines}
          /\ box_path = <<>> /\ box_functions = <<>> /\ box_external = <<>>
       \/ /\ pc = "box_input"
          /\ box_path \in BoxPaths
          /\ box_functions \in BoxFunctions
          /\ box_external \in BoxExternals
          /\ lines = <<>>
    /\ result = <<>>
    /\ NormIdle /\ FilesIdle /\ PanelIdle

CreateBoxLines ==
    /\ pc = "box_input"
    /\ lines' = create_box_lines(box_path, box_functions, box_external, width)
    /\ pc' = "box_lines"
    /\ UNCHANGED <<normVars, fileVars, panelVars, box_path, box_functions,
                   box_external, width, result>>

DrawBox ==
    /\ pc = "box_lines"
    /\ result' = draw_box(lines, width)
    /\ pc' = "box_done"
    /\ UNCHANGED <<normVars, fileVars, panelVars, box_path, box_functions,
                   box_external, lines, width>>

NextBox == CreateBoxLines \/ DrawBox

SpecBox == InitBox /\ [][NextBox]_vars

\* the box has len(lines) + 2 lines, all of width w, and every content line
\* holds w - 4 characters between its prefix and its suffix
BoxShape ==
    /\ Len(result) = Len(lines) + 2
    /\ \A k \in 1..Len(result) : Len(result[k]) = width
    /\ \A k \in 1..Len(lines) :
          /\ SubSeq(result[k + 1], 1, 2) = <<BoxBar, " ">>
          /\ SubSeq(result[k + 1], Len(result[k + 1]) - 1, Len(result[k + 1]))
                = <<" ", BoxBar>>
          /\ Len(result[k + 1]) - 4 = width - 4

----------------------------------------------------------------------------
(* Specification SpecNorm: normalize_import applied once and twice.        *)

NormAlphabet == {"c", "H", ".", "/", "'"}

Strings(alphabet, n) == UNION {[1..k -> alphabet] : k \in 0..n}

InitNorm ==
    /\ pc = "norm_input"
    /\ imp \in Strings(NormAlphabet, MaxImportLen)
    /\ norm1 = <<>>
    /\ norm2 = <<>>
    /\ FilesIdle
    /\ PanelIdle
    /\ BoxIdle

NormalizeOnce ==
    /\ pc = "norm_input"
    /\ norm1' = normalize_import(imp)
    /\ pc' = "norm_once"
    /\ UNCHANGED <<imp, norm2, fileVars, panelVars, boxVars>>

NormalizeTwice ==
    /\ pc = "norm_once"
    /\ norm2' = normalize_import(norm1)
    /\ pc' = "norm_twice"
    /\ UNCHANGED <<imp, norm1, fileVars, panelVars, boxVars>>

NextNorm == NormalizeOnce \/ NormalizeTwice

SpecNorm == InitNorm /\ [][NextNorm]_vars

\* the normalized form is empty, or has no leading dot and no quote at an end
IsBare(s) ==
    \/ s = <<>>
    \/ /\ s[1] \notin {".", "\"", "'"}
       /\ s[Len(s)] \notin {"\"", "'"}

(* C3, as stated: normalize_import is idempotent on every import string,   *)
(* normalize_import(normalize_import(i)) = normalize_import(i).            *)
C3_Idempotent == pc = "norm_twice" => norm2 = norm1

(* C3, amended: normalizing twice gives the same result as normalizing    *)
(* once whenever the normalized form is empty or neither starts with a dot *)
(* nor starts or ends with a quote character.                              *)
C3_IdempotentOnBare == (pc = "norm_twice" /\ IsBare(norm1)) => norm2 = norm1

\* an import with a path separator and a dot whose normalized form is bare
C3_Witness ==
    /\ pc = "norm_twice"
    /\ Contains(imp, "/") /\ Contains(imp, ".")
    /\ norm1 # <<>> /\ norm1 # imp /\ IsBare(norm1)

====
